---------------------------- MODULE Spec2Model ----------------------------
(***************************************************************************)
(* PathSnap (src/app.py): DirectoryTreeApp.  The Tk main thread runs the   *)
(* handlers (toggle_search, start_search, the ignore-list handlers and the *)
(* polling consumer monitor_search); a daemon thread runs search_directory *)
(* and hands its lines to the main thread through queue.Queue.             *)
(*                                                                         *)
(* Names of directories and files are natural numbers; their numeric order *)
(* stands for the lexicographic order of the strings.  A path is the       *)
(* sequence of names below the start directory (<<>> is the start          *)
(* directory itself, os.path.relpath "." ).                                *)
(*                                                                         *)
(* dir_entry always names the root of tree; depth_entry and show_option    *)
(* hold what the user has set and are not edited during a behaviour.  The  *)
(* handlers that touch neither the search nor the ignore set               *)
(* (browse_directory, clear_results, copy_results) and the progress texts  *)
(* are left out.                                                           *)
(***************************************************************************)
EXTENDS Integers, Sequences, FiniteSets, TLC

VARIABLES
    tree,             \* the directory tree below dir_entry (the filesystem)
    depth_entry,      \* int(self.depth_entry.get()), -1 if it does not parse
    show_option,      \* self.show_option.get()
    rootExists,       \* os.path.isdir(start_dir) on the live filesystem
    ignored_folders,  \* self.ignored_folders (one set object, shared)
    ignoreOps,        \* number of ignore-list edits made so far
    stop_event,       \* self.stop_event
    search_thread,    \* self.search_thread: 0 is None, else a thread id
    threads,          \* thread id -> locals of its search_directory call
    queue,            \* self.queue
    items_processed,  \* self.items_processed
    text_area,        \* lines in self.text_area
    monpc,            \* where the main thread is inside monitor_search
    pending,          \* monitor_search callbacks scheduled by root.after
    run               \* history of the current run (see RunStart)

vars == <<tree, depth_entry, show_option, rootExists, ignored_folders,
          ignoreOps, stop_event,
          search_thread, threads, queue, items_processed, text_area,
          monpc, pending, run>>

---------------------------------------------------------------------------
(* Bounds *)

MaxRuns == 2        \* start_search calls that start a worker
MaxIgnoreOps == 1   \* edits of the ignore list

---------------------------------------------------------------------------
(* Inputs *)

\* what the user has typed into depth_entry, as start_search reads it
Depths == {-1, 0, 1}

\* the show_option radio buttons
Modes == {"both", "folders", "files"}

\* names typed into ignore_entry
Names == {1, 2}

\* load_default_ignore_patterns: common_patterns, here the one name that
\* occurs in the trees
DefaultPatterns == {2}

Dir(d, f) == [dirs |-> d, files |-> f]

\* dirs and files are in the order os.scandir lists them
TreeA ==
    [name |-> 1,
     ent  |-> ( <<>>     :> Dir(<<2, 1>>, <<3>>)
             @@ <<1>>    :> Dir(<<2>>,    <<2, 1>>)
             @@ <<1, 2>> :> Dir(<<>>,     <<>>)
             @@ <<2>>    :> Dir(<<>>,     <<1>>) )]

TreeB ==
    [name |-> 2,
     ent  |-> ( <<>>     :> Dir(<<1>>, <<>>)
             @@ <<1>>    :> Dir(<<>>,  <<1>>) )]

Trees == {TreeA, TreeB}

---------------------------------------------------------------------------
(* Queue items *)

VERT == "|   "
LAST == "\\-- "
TEE  == "|-- "

\* a formatted line f"{prefix}{name}" or f"{prefix}{name}/"
TextLine(prefix, name, slash) ==
    [kind |-> "line", prefix |-> prefix, name |-> name, slash |-> slash]

\* f"Error: ..."
ErrorLine == [kind |-> "Error", prefix |-> <<>>, name |-> 0, slash |-> FALSE]

\* the search-complete signal
None == [kind |-> "None", prefix |-> <<>>, name |-> 0, slash |-> FALSE]

---------------------------------------------------------------------------
(* Pure helpers *)

Range(s) == {s[i] : i \in 1..Len(s)}

Min(S) == CHOOSE m \in S : \A x \in S : m <= x

Max(S) == CHOOSE m \in S : \A x \in S : x <= m

RECURSIVE SortSet(_)
SortSet(S) == IF S = {} THEN <<>> ELSE <<Min(S)>> \o SortSet(S \ {Min(S)})

\* sorted(list) of the distinct names of one directory
sorted(s) == SortSet(Range(s))

IsPrefix(s, t) == Len(s) <= Len(t) /\ SubSeq(t, 1, Len(s)) = s

\* depth = 0 if rel_path == "." else len(rel_path.split(os.sep))
DepthOf(path) == Len(path)

\* variant: 0 taken for "no limit", as a negative max_depth is
DepthExcluded_ZeroUnbounded(max_depth, depth) ==
    max_depth > 0 /\ depth > max_depth

\* if max_depth >= 0 and depth > max_depth: continue
DepthExcluded(max_depth, depth) == max_depth >= 0 /\ depth > max_depth

\* variant: the ignore set is not applied
FilterDirs_KeepAll(dirs, ignored) == dirs

\* filtered_dirs, which is also what is left of dirs after the removals
FilterDirs(dirs, ignored) == SelectSeq(dirs, LAMBDA d : d \notin ignored)

\* the children of path, in list order, as paths
Children(path, dirs) == [k \in 1..Len(dirs) |-> Append(path, dirs[k])]

---------------------------------------------------------------------------
(* search_directory: the per-directory computations *)

\* one entry of all_paths: (root, depth, sorted(filtered_dirs), sorted(files))
PathEntry(path, dirs, files, ignored) ==
    [root  |-> path,
     depth |-> DepthOf(path),
     dirs  |-> sorted(FilterDirs(dirs, ignored)),
     files |-> sorted(files)]

\* One iteration of `for root, dirs, files in os.walk(start_dir)` for the
\* directory os.walk yields: what is appended to all_paths and which names
\* are left in dirs for os.walk to descend into.
WalkYield(t, path, max_depth, ignored) ==
    LET dirs  == t.ent[path].dirs
        files == t.ent[path].files
    IN  IF DepthExcluded(max_depth, DepthOf(path))
        THEN [append |-> <<>>, descend |-> dirs]
        ELSE [append  |-> <<PathEntry(path, dirs, files, ignored)>>,
              descend |-> FilterDirs(dirs, ignored)]

\* is_last of the final prefix segment; i counts from 0 as range(depth) does
IsLast(t, exists, path_parts, i) ==
    IF i < Len(path_parts) - 1
    THEN LET parent_path == SubSeq(path_parts, 1, i + 1)
         IN  IF ~exists \/ parent_path \notin DOMAIN t.ent
             THEN TRUE    \* except (OSError, PermissionError)
             ELSE LET dirs_in_parent == Range(t.ent[parent_path].dirs)
                  IN  IF path_parts[i + 1] \in dirs_in_parent
                      THEN path_parts[i + 1] = Max(dirs_in_parent)
                      ELSE TRUE
    ELSE TRUE

\* prefix_parts for a directory at depth > 0
PrefixParts(t, exists, path_parts, depth) ==
    [k \in 1..depth |->
        IF k - 1 = depth - 1
        THEN IF IsLast(t, exists, path_parts, k - 1) THEN LAST ELSE TEE
        ELSE VERT]

\* f"{prefix}{dir_name}/"
DirLine(t, exists, e) ==
    TextLine(PrefixParts(t, exists, e.root, e.depth), e.root[Len(e.root)], TRUE)

\* f"{os.path.basename(start_dir)}/"
RootLine(t) == TextLine(<<>>, t.name, TRUE)

\* if show_option in ["both", "files"]
ShowsFiles(show) == show \in {"both", "files"}

\* f"{prefix}{file_prefix}{file_name}" for files[k], k counting from 1
FileLine(prefix, files, k, show) ==
    LET is_last_file == (k = Len(files)) /\ show # "both"
        file_prefix  == IF is_last_file THEN LAST ELSE TEE
    IN  TextLine(Append(prefix, file_prefix), files[k], FALSE)

---------------------------------------------------------------------------
(* Threads *)

ThreadIds == 1..MaxRuns

NewThread ==
    [pc |-> "new", max_depth |-> 0, show_option |-> "both",
     stack |-> <<>>, all_paths |-> <<>>, idx |-> 0, fidx |-> 0,
     isdir |-> TRUE, put |-> <<>>, visited |-> {}]

DeadThread == [NewThread EXCEPT !.pc = "dead"]

\* threading.Thread(target=self.search_directory, args=(...)) once started
StartedThread(max_depth, show) ==
    [NewThread EXCEPT !.pc = "check", !.max_depth = max_depth,
                      !.show_option = show]

\* Thread.is_alive()
is_alive(w) == w.pc \notin {"new", "dead"}

\* self.search_thread and self.search_thread.is_alive()
SearchAlive == search_thread # 0 /\ is_alive(threads[search_thread])

AliveIds == {i \in ThreadIds : is_alive(threads[i])}

\* a finished Thread object nothing refers to any more
Reaped(w) == IF w.pc = "dead" THEN DeadThread ELSE w

\* self.queue.put(item) by the worker.  put is the history of the items
\* this call has put, each with the directory it is about (for a file
\* line, the directory the file is in); visited is the history of the
\* directories os.walk has yielded; isdir is what os.path.isdir returned.
Put(w, item, path) ==
    [w EXCEPT !.put = Append(@, [item |-> item, path |-> path])]

---------------------------------------------------------------------------
(* History of the current run *)

\* ignore0: ignored_folders when start_search ran; kept: the names that
\* have been in ignored_folders ever since; changed: ignored_folders was
\* edited while the worker was alive; stopped: stop_event was set.
RunStart ==
    [ignore0 |-> ignored_folders, kept |-> ignored_folders,
     changed |-> FALSE, stopped |-> FALSE]

RunEdit(new) ==
    IF AliveIds # {}
    THEN [run EXCEPT !.kept = @ \cap new,
                     !.changed = @ \/ new # ignored_folders]
    ELSE run

---------------------------------------------------------------------------
(* Init *)

Init ==
    /\ tree \in Trees
    /\ depth_entry \in Depths
    /\ show_option \in Modes
    /\ rootExists = TRUE
    /\ ignored_folders = DefaultPatterns
    /\ ignoreOps = 0
    /\ stop_event = FALSE
    /\ search_thread = 0
    /\ threads = [i \in ThreadIds |-> NewThread]
    /\ queue = <<>>
    /\ items_processed = 0
    /\ text_area = <<>>
    /\ monpc = "idle"
    /\ pending = 0
    /\ run = RunStart

---------------------------------------------------------------------------
(* The worker thread: search_directory, one step per shared access *)

SetThread(i, w) == threads' = [threads EXCEPT ![i] = w]

\* variant: the error line is put but the return is missing
sd_check_NoReturn(i) ==
    LET w == threads[i]
    IN  /\ w.pc = "check"
        /\ IF ~rootExists
           THEN /\ SetThread(i, [Put(w, ErrorLine, <<>>) EXCEPT
                                    !.pc = "walk", !.isdir = FALSE])
                /\ queue' = Append(queue, ErrorLine)
           ELSE /\ SetThread(i, [w EXCEPT !.pc = "walk", !.stack = << <<>> >>])
                /\ UNCHANGED queue
        /\ UNCHANGED <<tree, depth_entry, show_option, rootExists,
                       ignored_folders, ignoreOps, stop_event, search_thread,
                       items_processed, text_area, monpc, pending, run>>

\* if not os.path.isdir(start_dir): put the error line and return
sd_check(i) ==
    LET w == threads[i]
    IN  /\ w.pc = "check"
        /\ IF ~rootExists
           THEN /\ SetThread(i, [Put(w, ErrorLine, <<>>) EXCEPT
                                    !.pc = "exit", !.isdir = FALSE])
                /\ queue' = Append(queue, ErrorLine)
           ELSE /\ SetThread(i, [w EXCEPT !.pc = "walk", !.stack = << <<>> >>])
                /\ UNCHANGED queue
        /\ UNCHANGED <<tree, depth_entry, show_option, rootExists,
                       ignored_folders, ignoreOps, stop_event, search_thread,
                       items_processed, text_area, monpc, pending, run>>

\* if self.stop_event.is_set(): break   (the os.walk loop)
WalkBreaks(stop) == stop

\* One iteration of the os.walk loop.  os.walk ignores the errors of its
\* own scandir calls, so on a removed tree it yields nothing more.
sd_walk(i) ==
    LET w == threads[i]
    IN  /\ w.pc = "walk"
        /\ IF ~rootExists \/ w.stack = <<>>
           THEN SetThread(i, [w EXCEPT !.pc = "rootline", !.stack = <<>>])
           ELSE LET path == Head(w.stack)
                    y    == WalkYield(tree, path, w.max_depth, ignored_folders)
                IN  IF WalkBreaks(stop_event)
                    THEN SetThread(i, [w EXCEPT !.pc = "rootline",
                                                !.stack = <<>>,
                                                !.visited = @ \cup {path}])
                    ELSE SetThread(i,
                            [w EXCEPT !.all_paths = @ \o y.append,
                                      !.visited = @ \cup {path},
                                      !.stack = Children(path, y.descend)
                                                  \o Tail(w.stack)])
        /\ UNCHANGED <<tree, depth_entry, show_option, rootExists,
                       ignored_folders, ignoreOps, stop_event, search_thread,
                       queue, items_processed, text_area, monpc, pending,
                       run>>

\* self.queue.put(f"{os.path.basename(start_dir)}/")
sd_root_line(i) ==
    LET w == threads[i]
    IN  /\ w.pc = "rootline"
        /\ SetThread(i, [Put(w, RootLine(tree), <<>>) EXCEPT
                            !.pc = "loop", !.idx = 1])
        /\ queue' = Append(queue, RootLine(tree))
        /\ UNCHANGED <<tree, depth_entry, show_option, rootExists,
                       ignored_folders, ignoreOps, stop_event, search_thread,
                       items_processed, text_area, monpc, pending, run>>

\* variant: the all_paths loop does not look at the flag
LoopBreaks_Never(stop) == FALSE

\* if self.stop_event.is_set(): break   (the all_paths loop)
LoopBreaks(stop) == stop

\* if depth == 0: continue
SkipsEntry(e) == e.depth = 0

\* One iteration of `for root, depth, dirs, files in all_paths` up to the
\* file loop: the directory's own line.
sd_dir(i) ==
    LET w == threads[i]
    IN  /\ w.pc = "loop"
        /\ IF w.idx > Len(w.all_paths) \/ LoopBreaks(stop_event)
           THEN /\ SetThread(i, [w EXCEPT !.pc = "end"])
                /\ UNCHANGED queue
           ELSE LET e == w.all_paths[w.idx]
                    line == DirLine(tree, rootExists, e)
                IN  IF SkipsEntry(e)
                    THEN /\ SetThread(i, [w EXCEPT !.idx = @ + 1])
                         /\ UNCHANGED queue
                    ELSE /\ queue' = Append(queue, line)
                         /\ IF ShowsFiles(w.show_option) /\ e.files # <<>>
                            THEN SetThread(i, [Put(w, line, e.root) EXCEPT
                                                 !.pc = "files", !.fidx = 1])
                            ELSE SetThread(i, [Put(w, line, e.root) EXCEPT
                                                 !.idx = @ + 1])
        /\ UNCHANGED <<tree, depth_entry, show_option, rootExists,
                       ignored_folders, ignoreOps, stop_event, search_thread,
                       items_processed, text_area, monpc, pending, run>>

\* if self.stop_event.is_set(): break   (the file loop)
FileBreaks(stop) == stop

\* One iteration of `for i, file_name in enumerate(files)` up to the put
\* of the file's line.
sd_file(i) ==
    LET w == threads[i]
        e == w.all_paths[w.idx]
        prefix == DirLine(tree, rootExists, e).prefix
        line == FileLine(prefix, e.files, w.fidx, w.show_option)
    IN  /\ w.pc = "files"
        /\ IF FileBreaks(stop_event)
           THEN /\ SetThread(i, [w EXCEPT !.pc = "loop", !.idx = @ + 1,
                                          !.fidx = 0])
                /\ UNCHANGED queue
           ELSE /\ queue' = Append(queue, line)
                /\ SetThread(i, [Put(w, line, e.root) EXCEPT !.pc = "count"])
        /\ UNCHANGED <<tree, depth_entry, show_option, rootExists,
                       ignored_folders, ignoreOps, stop_event, search_thread,
                       items_processed, text_area, monpc, pending, run>>

\* self.items_processed += 1, the statement after the put, and the step
\* of the file loop to its next iteration
sd_count(i) ==
    LET w == threads[i]
        e == w.all_paths[w.idx]
    IN  /\ w.pc = "count"
        /\ items_processed' = items_processed + 1
        /\ IF w.fidx = Len(e.files)
           THEN SetThread(i, [w EXCEPT !.pc = "loop", !.idx = @ + 1,
                                       !.fidx = 0])
           ELSE SetThread(i, [w EXCEPT !.pc = "files", !.fidx = @ + 1])
        /\ UNCHANGED <<tree, depth_entry, show_option, rootExists,
                       ignored_folders, ignoreOps, stop_event, search_thread,
                       queue, text_area, monpc, pending, run>>

\* self.queue.put(None)  # Search complete signal
sd_end(i) ==
    LET w == threads[i]
    IN  /\ w.pc = "end"
        /\ SetThread(i, [Put(w, None, <<>>) EXCEPT !.pc = "exit"])
        /\ queue' = Append(queue, None)
        /\ UNCHANGED <<tree, depth_entry, show_option, rootExists,
                       ignored_folders, ignoreOps, stop_event, search_thread,
                       items_processed, text_area, monpc, pending, run>>

\* search_directory returns and the thread ends
sd_exit(i) ==
    LET w == threads[i]
    IN  /\ w.pc = "exit"
        /\ SetThread(i, [w EXCEPT !.pc = "dead"])
        /\ UNCHANGED <<tree, depth_entry, show_option, rootExists,
                       ignored_folders, ignoreOps, stop_event, search_thread,
                       queue, items_processed, text_area, monpc, pending,
                       run>>

---------------------------------------------------------------------------
(* The main thread: handlers run one at a time, when it is idle *)

\* start_search; max_depth and show_option are read from the widgets.
\* It ends by calling monitor_search itself.
start_search ==
    IF ~rootExists
    THEN UNCHANGED vars     \* messagebox.showerror, return
    ELSE /\ search_thread < MaxRuns
         /\ text_area' = <<>>
         /\ stop_event' = FALSE
         /\ items_processed' = 0
         /\ search_thread' = search_thread + 1
         /\ threads' = [j \in ThreadIds |->
                          IF j = search_thread + 1
                          THEN StartedThread(depth_entry, show_option)
                          ELSE Reaped(threads[j])]
         /\ monpc' = "drain"
         /\ run' = RunStart
         /\ UNCHANGED <<tree, depth_entry, show_option, rootExists,
                        ignored_folders, ignoreOps, queue, pending>>

\* variant: the button starts a search whether or not one is running
toggle_search_AlwaysStart ==
    /\ monpc = "idle"
    /\ start_search

\* the Generate Tree / Stop button
toggle_search ==
    /\ monpc = "idle"
    /\ IF SearchAlive
       THEN /\ stop_event' = TRUE
            /\ run' = [run EXCEPT !.stopped = TRUE]
            /\ UNCHANGED <<tree, depth_entry, show_option, rootExists,
                           ignored_folders, ignoreOps, search_thread, threads,
                           queue, items_processed, text_area, monpc, pending>>
       ELSE start_search

\* an edit of the one set object the worker also reads
EditIgnore(new) ==
    /\ ignoreOps < MaxIgnoreOps
    /\ ignoreOps' = ignoreOps + 1
    /\ ignored_folders' = new
    /\ run' = RunEdit(new)
    /\ UNCHANGED <<tree, depth_entry, show_option, rootExists, stop_event,
                   search_thread, threads, queue, items_processed,
                   text_area, monpc, pending>>

add_ignore_folder ==
    /\ monpc = "idle"
    /\ \E folder_name \in Names \ ignored_folders :
          EditIgnore(ignored_folders \cup {folder_name})

\* the listbox shows exactly the members of ignored_folders
remove_ignore_folder ==
    /\ monpc = "idle"
    /\ \E folder_name \in ignored_folders :
          EditIgnore(ignored_folders \ {folder_name})

clear_ignore_folders ==
    /\ monpc = "idle"
    /\ EditIgnore({})

load_default_ignore_patterns ==
    /\ monpc = "idle"
    /\ EditIgnore(ignored_folders \cup DefaultPatterns)

\* The get_nowait loop of monitor_search: items are taken up to the first
\* None, or until queue.Empty.  Entered from start_search or from root.after.
Taken(q) ==
    IF \E k \in 1..Len(q) : q[k] = None
    THEN Min({k \in 1..Len(q) : q[k] = None})
    ELSE Len(q)

monitor_search_drain ==
    LET n == Taken(queue)
        got == SubSeq(queue, 1, n)
    IN  /\ \/ monpc = "drain" /\ UNCHANGED pending
           \/ monpc = "idle" /\ pending > 0 /\ pending' = pending - 1
        /\ queue' = SubSeq(queue, n + 1, Len(queue))
        /\ text_area' = text_area \o SelectSeq(got, LAMBDA x : x # None)
        /\ monpc' = "check"
        /\ UNCHANGED <<tree, depth_entry, show_option, rootExists,
                       ignored_folders, ignoreOps, stop_event, search_thread,
                       threads, items_processed, run>>

\* if self.search_thread and self.search_thread.is_alive():
\*     self.root.after(100, self.monitor_search)
monitor_search_check ==
    /\ monpc = "check"
    /\ monpc' = "idle"
    /\ pending' = IF SearchAlive THEN pending + 1 ELSE pending
    /\ UNCHANGED <<tree, depth_entry, show_option, rootExists,
                   ignored_folders, ignoreOps, stop_event, search_thread,
                   threads, queue, items_processed, text_area, run>>

---------------------------------------------------------------------------
(* The filesystem: the start directory is removed *)

RemoveRoot ==
    /\ rootExists
    /\ rootExists' = FALSE
    /\ UNCHANGED <<tree, depth_entry, show_option, ignored_folders, ignoreOps,
                   stop_event, search_thread, threads, queue, items_processed,
                   text_area, monpc, pending, run>>

---------------------------------------------------------------------------

Worker(i) ==
    \/ sd_check(i)
    \/ sd_walk(i)
    \/ sd_root_line(i)
    \/ sd_dir(i)
    \/ sd_file(i)
    \/ sd_count(i)
    \/ sd_end(i)
    \/ sd_exit(i)

Next ==
    \/ \E i \in ThreadIds : Worker(i)
    \/ toggle_search
    \/ add_ignore_folder
    \/ remove_ignore_folder
    \/ clear_ignore_folders
    \/ load_default_ignore_patterns
    \/ monitor_search_drain
    \/ monitor_search_check
    \/ RemoveRoot

Spec == Init /\ [][Next]_vars

---------------------------------------------------------------------------
(* Reference definitions the properties are stated with *)

\* the items a call has put so far
PutItems(w) == [k \in 1..Len(w.put) |-> w.put[k].item]

\* the text lines among items (everything but the end marker)
TextOf(items) == SelectSeq(items, LAMBDA x : x # None)

IsDirLine(x) == x.item.kind = "line" /\ x.item.slash

IsFileLine(x) == x.item.kind = "line" /\ ~x.item.slash

\* the directories of t that are neither named in ign nor below a
\* directory named in ign (the start directory's own name does not count)
KeptDirs(t, ign) ==
    {p \in DOMAIN t.ent : \A k \in 1..Len(p) : p[k] \notin ign}

ListedDirNames(t, ign) ==
    {t.name} \cup {p[Len(p)] : p \in KeptDirs(t, ign) \ {<<>>}}

ListedFileNames(t, ign) ==
    UNION {Range(t.ent[p].files) : p \in KeptDirs(t, ign)}

EmittedDirNames(w) ==
    {w.put[k].item.name : k \in {j \in 1..Len(w.put) : IsDirLine(w.put[j])}}

EmittedFileNames(w) ==
    {w.put[k].item.name : k \in {j \in 1..Len(w.put) : IsFileLine(w.put[j])}}

\* a run that ran to its end on an unchanged tree with an unchanged
\* ignore set and was not cancelled
CleanRun(i) ==
    /\ i = search_thread
    /\ threads[i].pc = "dead"
    /\ rootExists
    /\ ~run.changed
    /\ ~run.stopped

---------------------------------------------------------------------------
(* C1 *)

\* C1: for maxDepth = -1 the names emitted by a complete run, for each
\* entry kind the display mode includes, are exactly the names of the
\* recursive listing below the root minus the ignored subdirectories and
\* what is below them; the files directly in the root are among them.
C1_FullListing ==
    \A i \in ThreadIds :
        LET w == threads[i]
        IN  (CleanRun(i) /\ w.max_depth = -1) =>
              /\ w.show_option \in {"both", "folders"} =>
                    EmittedDirNames(w) = ListedDirNames(tree, run.ignore0)
              /\ ShowsFiles(w.show_option) =>
                    EmittedFileNames(w) = ListedFileNames(tree, run.ignore0)

---------------------------------------------------------------------------
(* C2 *)

\* C2 as stated: no emitted line names a directory whose name is in the
\* ignore set, or an entry below such a directory, the root directory
\* included.
C2_NoIgnoredIncludingRoot ==
    \A i \in ThreadIds :
        \A k \in 1..Len(threads[i].put) :
            LET x == threads[i].put[k]
            IN  (i = search_thread /\ x.item.kind = "line") =>
                  /\ tree.name \notin run.kept
                  /\ \A j \in 1..Len(x.path) : x.path[j] \notin run.kept

\* C2 amended: no emitted line names a directory below the root whose name
\* has been in the ignore set for the whole run, or an entry below such a
\* directory; the root line itself is emitted whatever the root's name.
C2_NoIgnoredBelowRoot ==
    \A i \in ThreadIds :
        \A k \in 1..Len(threads[i].put) :
            LET x == threads[i].put[k]
            IN  (i = search_thread /\ x.item.kind = "line") =>
                  \A j \in 1..Len(x.path) : x.path[j] \notin run.kept

\* a complete unbounded run over TreeA, where the ignored name 2 occurs
\* at depth 1 and at depth 2, that has emitted lines below the root
C2_Witness ==
    /\ tree = TreeA
    /\ search_thread # 0
    /\ threads[search_thread].pc = "dead"
    /\ threads[search_thread].max_depth = -1
    /\ 2 \in run.kept
    /\ Len(threads[search_thread].put) >= 4

---------------------------------------------------------------------------
(* C3 *)

\* C3: with show_option = "files" no line is put for a directory other
\* than the root.
C3_FilesOnlyNoFolderLine ==
    \A i \in ThreadIds :
        LET w == threads[i]
        IN  w.show_option = "files" =>
              \A k \in 1..Len(w.put) :
                  IsDirLine(w.put[k]) => w.put[k].path = <<>>

---------------------------------------------------------------------------
(* C4 *)

\* C4: with maxDepth = 0 and an existing root, a run that is not cancelled
\* puts exactly the root line and then the end marker.
C4_DepthZeroRootOnly ==
    \A i \in ThreadIds :
        LET w == threads[i]
        IN  (i = search_thread /\ w.pc \in {"exit", "dead"} /\ w.max_depth = 0
               /\ rootExists /\ ~run.stopped) =>
              PutItems(w) = <<RootLine(tree), None>>

\* a finished run with maxDepth = 0 over TreeA, which has subdirectories
\* and files, one of the subdirectories not ignored
C4_Witness ==
    /\ tree = TreeA
    /\ search_thread # 0
    /\ threads[search_thread].pc = "dead"
    /\ threads[search_thread].max_depth = 0
    /\ rootExists /\ ~run.stopped
    /\ 1 \notin ignored_folders
    /\ PutItems(threads[search_thread]) = <<RootLine(tree), None>>

---------------------------------------------------------------------------
(* C5 *)

\* C5: with maxDepth = k >= 0 the walk never visits a subdirectory of a
\* directory deeper than k, that is, nothing deeper than k + 1.
C5_NoDescentBelowLimit ==
    \A i \in ThreadIds :
        LET w == threads[i]
        IN  w.max_depth >= 0 =>
              \A p \in w.visited : DepthOf(p) <= w.max_depth + 1

---------------------------------------------------------------------------
(* search_directory run to its end with no cancellation, on an existing    *)
(* tree, with the ignore set ign throughout                                *)

\* all_paths after the os.walk loop, os.walk still having stack to visit
RECURSIVE WalkAll(_, _, _, _)
WalkAll(t, stack, max_depth, ign) ==
    IF stack = <<>>
    THEN <<>>
    ELSE LET path == Head(stack)
             y    == WalkYield(t, path, max_depth, ign)
         IN  y.append \o WalkAll(t, Children(path, y.descend) \o Tail(stack),
                                 max_depth, ign)

\* the lines one iteration of the all_paths loop puts
EntryLines(t, e, show) ==
    IF SkipsEntry(e)
    THEN <<>>
    ELSE LET line == DirLine(t, TRUE, e)
         IN  <<line>> \o
             (IF ShowsFiles(show)
              THEN [k \in 1..Len(e.files) |->
                       FileLine(line.prefix, e.files, k, show)]
              ELSE <<>>)

RECURSIVE AllEntryLines(_, _, _)
AllEntryLines(t, entries, show) ==
    IF entries = <<>>
    THEN <<>>
    ELSE EntryLines(t, Head(entries), show)
           \o AllEntryLines(t, Tail(entries), show)

\* the text lines of the whole run
FullOutput(t, max_depth, show, ign) ==
    <<RootLine(t)>>
      \o AllEntryLines(t, WalkAll(t, << <<>> >>, max_depth, ign), show)

---------------------------------------------------------------------------
(* C6 *)

\* C6: on an unchanged tree with an unchanged ignore set, once the stop
\* flag has been set the text lines the run has put are a prefix of the
\* lines of the run left to complete, and none of them is an error line.
C6_CancelledIsPrefix ==
    \A i \in ThreadIds :
        LET w == threads[i]
        IN  (i = search_thread /\ run.stopped /\ ~run.changed /\ rootExists) =>
              /\ IsPrefix(TextOf(PutItems(w)),
                          FullOutput(tree, w.max_depth, w.show_option,
                                     run.ignore0))
              /\ \A k \in 1..Len(w.put) : w.put[k].item # ErrorLine

\* a run cancelled inside the all_paths loop: it has ended, after at least
\* one line below the root and with lines of the complete run missing
C6_Witness ==
    /\ search_thread # 0
    /\ run.stopped /\ ~run.changed /\ rootExists
    /\ LET w == threads[search_thread]
           full == FullOutput(tree, w.max_depth, w.show_option, run.ignore0)
       IN  /\ w.pc = "dead"
           /\ Len(w.put) >= 3
           /\ w.put[Len(w.put)].item = None
           /\ Len(TextOf(PutItems(w))) < Len(full)

---------------------------------------------------------------------------
(* C7 *)

\* C7: what one call puts is either text lines and then exactly one end
\* marker, as the last item, or one error line and nothing else; an
\* invalid root gives the error line alone, with items_processed 0; a run
\* whose root was valid never puts an error line, whatever becomes of the
\* tree during the walk.
C7_OutputShape ==
    \A i \in ThreadIds :
        LET w == threads[i]
            items == PutItems(w)
        IN  /\ \A k \in 1..Len(items) : items[k] = None => k = Len(items)
            /\ \A k \in 1..Len(items) : items[k] = ErrorLine => Len(items) = 1
            /\ (i = search_thread /\ w.pc \in {"exit", "dead"}) =>
                  /\ Len(items) >= 1
                  /\ items[Len(items)] = None \/ items = <<ErrorLine>>
            /\ (w.pc \notin {"new", "check"} /\ ~w.isdir) =>
                  /\ items = <<ErrorLine>>
                  /\ i = search_thread => items_processed = 0
            /\ w.isdir => \A k \in 1..Len(items) : items[k] # ErrorLine

\* the second run finds the root gone (it was removed after start_search
\* had validated it): the call has put the error line alone and ended
C7_Witness ==
    /\ search_thread = 2
    /\ threads[2].pc = "dead"
    /\ PutItems(threads[2]) = <<ErrorLine>>
    /\ items_processed = 0
    /\ tree = TreeA

---------------------------------------------------------------------------
(* C8 *)

\* C8: the lines of a walk are those of a walk with the ignore set as it
\* was at start_search, whatever edits of the ignore list happen while the
\* worker is alive.
C8_IgnoreSnapshot ==
    \A i \in ThreadIds :
        LET w == threads[i]
        IN  (i = search_thread /\ w.pc = "dead" /\ rootExists
               /\ ~run.stopped) =>
              TextOf(PutItems(w)) =
                 FullOutput(tree, w.max_depth, w.show_option, run.ignore0)

---------------------------------------------------------------------------
(* C9 *)

\* C9: at most one worker is alive, and while a worker is alive no step
\* (so no toggle_search) starts a worker, replaces search_thread, clears
\* the stop flag or resets items_processed.
C9_SingleWorker ==
    [][ /\ Cardinality(AliveIds') <= 1
        /\ AliveIds # {} =>
              /\ \A i \in ThreadIds :
                    threads[i].pc = "new" => threads'[i].pc = "new"
              /\ search_thread' = search_thread
              /\ stop_event => stop_event'
              /\ items_processed' >= items_processed ]_vars

\* toggle_search has been issued while the worker is alive and has
\* already emitted file lines: the flag is set, the worker is the only one
C9_Witness ==
    /\ SearchAlive
    /\ stop_event
    /\ items_processed > 0
    /\ Cardinality(AliveIds) = 1

---------------------------------------------------------------------------
(* C10 *)

\* C10: once the worker has ended and no monitor_search is running or
\* scheduled, the text area holds exactly the text lines the run's worker
\* put, in order, and the queue is empty (stated for runs on a tree that
\* is still there).
C10_AllDelivered ==
    (search_thread # 0 /\ AliveIds = {} /\ monpc = "idle" /\ pending = 0
       /\ rootExists) =>
        /\ text_area = TextOf(PutItems(threads[search_thread]))
        /\ queue = <<>>

---------------------------------------------------------------------------
(* C11 *)

\* the directory a path is an entry of
ParentOf(path) == SubSeq(path, 1, Len(path) - 1)

\* C11: among the lines one call puts, the lines of the subdirectories of
\* one directory come in increasing order of their names, whatever the
\* order the listing gave them in, and a subdirectory's line comes before
\* every line of an entry below it.
C11_SortedSiblingsPreorder ==
    \A i \in ThreadIds :
        LET w == threads[i]
        IN  \A j \in 1..Len(w.put) : \A k \in 1..Len(w.put) :
              LET x == w.put[j]
                  y == w.put[k]
              IN  (IsDirLine(x) /\ x.path # <<>>) =>
                    /\ (j < k /\ IsDirLine(y) /\ y.path # <<>>
                          /\ ParentOf(y.path) = ParentOf(x.path))
                         => x.item.name < y.item.name
                    /\ (y.item.kind = "line" /\ IsPrefix(x.path, y.path)
                          /\ j # k)
                         => j < k

---------------------------------------------------------------------------
(* C12 *)

\* C12: the last prefix segment of the line of a directory below the root
\* is the corner when the directory is the greatest by name of the
\* subdirectories of its parent (or the parent cannot be listed), and the
\* tee when the parent has a subdirectory of a greater name.
C12_LastSiblingConnector ==
    \A i \in ThreadIds :
        LET w == threads[i]
        IN  \A k \in 1..Len(w.put) :
              LET x == w.put[k]
              IN  (IsDirLine(x) /\ x.path # <<>>) =>
                    LET seg == x.item.prefix[Len(x.item.prefix)]
                        siblings == Range(tree.ent[ParentOf(x.path)].dirs)
                    IN  /\ seg \in {LAST, TEE}
                        /\ x.item.name = Max(siblings) => seg = LAST
                        /\ (rootExists /\ x.item.name # Max(siblings))
                             => seg = TEE

---------------------------------------------------------------------------
(* C13 *)

\* the number of file lines a call has put
FileLinesPut(w) ==
    Cardinality({k \in 1..Len(w.put) : IsFileLine(w.put[k])})

\* the step in which monitor_search takes an end marker: item is None,
\* the completion texts are set from self.items_processed
TakesEndMarker ==
    /\ monpc # "check"
    /\ monpc' = "check"
    /\ queue # <<>>
    /\ queue[Taken(queue)] = None

\* C13: in the step in which monitor_search takes an end marker,
\* items_processed is the number of file lines the current run's worker
\* has put; the counter changes only by one, upwards, in the worker's step
\* after the put of a file line, or to 0 in a start_search step taken when
\* no worker is alive.
C13_ItemCounter ==
    [][ /\ TakesEndMarker =>
              items_processed = FileLinesPut(threads[search_thread])
        /\ items_processed' # items_processed =>
              \/ /\ items_processed' = items_processed + 1
                 /\ \E i \in AliveIds :
                       /\ i = search_thread
                       /\ threads[i].pc = "count"
                       /\ threads'[i].pc # "count"
                       /\ FileLinesPut(threads[i]) = items_processed'
              \/ /\ items_processed' = 0
                 /\ AliveIds = {}
                 /\ search_thread' # search_thread ]_vars

=============================================================================
